---- MODULE Spec2Model ----
(***************************************************************************)
(* Model of the concurrent batch-transcoding orchestrators                 *)
(*   AsyncVideoEncoder            (src/video_encoder.py)                   *)
(*   AsyncVideoEncoderCloudinary  (src/video_encoder_cloudinary.py)        *)
(* The file system, the persisted registry (JSON) and the audit log (CSV)  *)
(* are state; every asyncio task and every pool worker has a position.     *)
(***************************************************************************)
EXTENDS Integers, Sequences, FiniteSets, TLC

VARIABLES
    variant,        \* "ffmpeg" | "cloudconvert" (AsyncVideoEncoder, USE_LOCAL_FFMPEG) | "cloudinary"
    tree,           \* the date folders in walk order, each the listing of its *.mp4 files
    fs,             \* [file -> content at the video's own path]
    backup,         \* [file -> content at <path>.backup]
    temp,           \* [basename -> content at the temp output path in TEMP_DIR]
    json_disk,      \* ENCODED_FILES_JSON as persisted
    csv,            \* CSV_LOG_FILE: the audit rows after the header
    encoded_files,  \* self.encoded_files: the registry in memory
    run,            \* number of the current process (run) of the script
    loaded,         \* history: load_encoded_files read the persisted registry at startup
    max_runs,       \* how many runs this behaviour may have
    phase,          \* "init" | "gather" | "finished": position of the sweep coroutine
    cur,            \* index in tree of the folder being processed
    pc,             \* [file -> position of its process_single_video_async task]
    task,           \* [file -> locals of its task]
    work_queue,     \* ThreadPoolExecutor work queue (FIFO)
    ready,          \* event loop: tasks whose executor future is done, in wake-up order
    sem,            \* value of self.encoding_semaphore
    budget,         \* adverse events (faults, failed or useless encodes, kills) still allowed
    total_processed,\* total_processed of the sweep
    added_before,   \* history: paths add_encoded_file was called for in an earlier run
    warnings,       \* "Folder does not exist" warnings logged by this run
    day_dirs,       \* the entries of the month directory, by index of tree, as os.listdir gives them
    date_folders,   \* the dates of scan_all_folders_async that are still to be scanned
    scanned,        \* history: the folders scan_date_folder_async was called on in this run
    csv_file,       \* CSV_LOG_FILE: whether it exists, and the header rows written to it
    rp              \* harness around one replace_original_file call

vars == <<variant, tree, fs, backup, temp, json_disk, csv, encoded_files, run, loaded,
          max_runs, phase, cur, pc, task, work_queue, ready, sem, budget,
          total_processed, added_before, warnings, day_dirs, date_folders, scanned,
          csv_file, rp>>

sweepVars == <<tree, fs, backup, temp, json_disk, csv, encoded_files, run, loaded,
               max_runs, phase, cur, pc, task, work_queue, ready, sem, budget,
               total_processed, added_before, warnings, day_dirs, date_folders,
               scanned, csv_file>>

----------------------------------------------------------------------------
(* Bounds *)
MaxSize == 3            \* file sizes 0..MaxSize in the replace harness
FolderFiles == 4        \* files in the first date folder (Spec: one run)
MaxFaults == 1          \* adverse events in one behaviour (Spec)
RunsFolderFiles == 1    \* files in the first date folder (SpecRuns: several runs)
MaxRuns == 2            \* runs of the script in one behaviour (SpecRuns)
RunsFaults == 2         \* adverse events in one behaviour (SpecRuns)
LogFolderFiles == 2     \* files in the first date folder (SpecLog)
LogFaults == 1          \* adverse events in one behaviour (SpecLog)
WalkFaults == 1         \* adverse events in one behaviour (SpecWalk)

(* Program constants *)
MAX_CONCURRENT_JOBS == 3
min_size_mb == 10
max_size_mb == 500

MiB == 1024 * 1024
MinBytes == min_size_mb * MiB
MaxBytes == max_size_mb * MiB

Variants == {"ffmpeg", "cloudconvert", "cloudinary"}

----------------------------------------------------------------------------
(* Files: a content is [gen, size]; gen counts how often the bytes were    *)
(* transcoded (0 = the original bytes), NoFile is a path with no file.     *)
NoFile == [gen |-> -1, size |-> 0]

Exists(c) == c.gen >= 0

get_file_size(c) == IF Exists(c) THEN c.size ELSE 0

(* The file-system calls of replace_original_file that may raise. *)
FsOps == {"rename_backup", "rename_encoded", "remove_backup",
          "remove_encoded", "restore_backup"}

----------------------------------------------------------------------------
(* replace_original_file.  S = [o, b, e]: contents at the original path,   *)
(* at <original>.backup and at the encoded temp path.  F: the calls that   *)
(* raise.  The result carries the new contents, the return value and the   *)
(* trace of calls made ("!" marks a call that raised).                     *)

SizeRejected_gt(original_size, encoded_size) == encoded_size > original_size

SizeRejected(original_size, encoded_size) == encoded_size >= original_size

BackupOriginal_nobackup(S) == [o |-> NoFile, b |-> S.b, e |-> S.e]

BackupOriginal(S) == [o |-> NoFile, b |-> S.o, e |-> S.e]

MoveEncoded(S) == [o |-> S.e, b |-> S.b, e |-> NoFile]

Result(S, ret, trace) == [o |-> S.o, b |-> S.b, e |-> S.e, ret |-> ret, trace |-> trace]

RestoreOnError(S, F, trace) ==
    IF Exists(S.b) /\ ~Exists(S.o)
    THEN IF "restore_backup" \in F
         THEN Result(S, FALSE, Append(trace, "restore_backup!"))
         ELSE Result([o |-> S.b, b |-> NoFile, e |-> S.e], FALSE,
                     Append(trace, "restore_backup"))
    ELSE Result(S, FALSE, trace)

replace_original_file_local(S, F) ==
    LET original_size == get_file_size(S.o)
        encoded_size == get_file_size(S.e)
    IN  IF original_size = 0
        THEN RestoreOnError(S, F, <<"ZeroDivisionError!">>)
        ELSE IF SizeRejected(original_size, encoded_size)
        THEN IF Exists(S.e) /\ "remove_encoded" \notin F
             THEN Result([S EXCEPT !.e = NoFile], FALSE, <<"remove_encoded">>)
             ELSE RestoreOnError(S, F, <<"remove_encoded!">>)
        ELSE IF ~Exists(S.o) \/ "rename_backup" \in F
        THEN RestoreOnError(S, F, <<"rename_backup!">>)
        ELSE LET S1 == BackupOriginal(S) IN
             IF ~Exists(S1.e) \/ "rename_encoded" \in F
             THEN RestoreOnError(S1, F, <<"rename_backup", "rename_encoded!">>)
             ELSE LET S2 == MoveEncoded(S1) IN
                  IF ~Exists(S2.b) \/ "remove_backup" \in F
                  THEN RestoreOnError(S2, F,
                           <<"rename_backup", "rename_encoded", "remove_backup!">>)
                  ELSE Result([S2 EXCEPT !.b = NoFile], TRUE,
                           <<"rename_backup", "rename_encoded", "remove_backup">>)

replace_original_file_cloudinary(S, F) ==
    LET original_size == get_file_size(S.o)
        encoded_size == get_file_size(S.e)
    IN  IF SizeRejected(original_size, encoded_size)
        THEN Result(S, FALSE, <<>>)
        ELSE LET skip == Exists(S.b)
                 t1 == IF skip THEN <<>> ELSE <<"rename_backup">>
                 S1 == IF skip THEN S ELSE BackupOriginal(S)
             IN  IF ~skip /\ (~Exists(S.o) \/ "rename_backup" \in F)
                 THEN Result(S, FALSE, <<"rename_backup!">>)
                 ELSE IF ~Exists(S1.e) \/ "rename_encoded" \in F
                 THEN Result(S1, FALSE, Append(t1, "rename_encoded!"))
                 ELSE LET S2 == MoveEncoded(S1) IN
                      IF get_file_size(S2.o) # encoded_size
                      THEN Result(S2, FALSE, Append(t1, "rename_encoded"))
                      ELSE Result(S2, TRUE, Append(t1, "rename_encoded"))

replace_original_file(v, S, F) ==
    IF v = "cloudinary" THEN replace_original_file_cloudinary(S, F)
                        ELSE replace_original_file_local(S, F)

----------------------------------------------------------------------------
(* The partition tree.  Files 1..k lie in the first date folder; the       *)
(* second holds file k+1, which has the basename of file 1, file k+2,      *)
(* which is below the minimum size, and file k+3, which is above the       *)
(* maximum size.                                                           *)
FilesOf(t) == UNION {{t[i][j] : j \in 1..Len(t[i])} : i \in 1..Len(t)}

Files == FilesOf(tree)

Folder(k) == tree[k]

FolderSet(k) == {tree[k][j] : j \in 1..Len(tree[k])}

LastFile == Cardinality(Files)

basename_same(f) == 1

basename(f) == IF f = LastFile - 2 THEN 1 ELSE f

InitSizeOf(last, f) ==
    IF f = last THEN MaxBytes + 1
    ELSE IF f = last - 1 THEN MinBytes - 1
    ELSE IF f = 2 THEN MinBytes
    ELSE MinBytes + 1

(* The markers of should_encode_video, matched against file names that are *)
(* sequences of characters.                                                *)
RECURSIVE IsPrefix(_, _)
IsPrefix(p, w) ==
    IF p = <<>> THEN TRUE
    ELSE IF w = <<>> THEN FALSE
    ELSE Head(p) = Head(w) /\ IsPrefix(Tail(p), Tail(w))

RECURSIVE Contains(_, _)
Contains(w, p) ==
    IF IsPrefix(p, w) THEN TRUE
    ELSE IF w = <<>> THEN FALSE
    ELSE Contains(Tail(w), p)

Upper == <<"A", "B", "C", "D", "E", "F", "G", "H", "I", "J", "K", "L", "M",
          "N", "O", "P", "Q", "R", "S", "T", "U", "V", "W", "X", "Y", "Z">>

Lower == <<"a", "b", "c", "d", "e", "f", "g", "h", "i", "j", "k", "l", "m",
          "n", "o", "p", "q", "r", "s", "t", "u", "v", "w", "x", "y", "z">>

lower(ch) ==
    IF \E i \in 1..Len(Upper) : Upper[i] = ch
    THEN Lower[CHOOSE i \in 1..Len(Upper) : Upper[i] = ch]
    ELSE ch

Lowered(w) == [i \in 1..Len(w) |-> lower(w[i])]

skip_patterns(v) ==
    {<<"_", "c", "o", "m", "p", "r", "e", "s", "s", "e", "d">>,
     <<"_", "e", "n", "c", "o", "d", "e", "d">>,
     <<"_", "o", "p", "t", "i", "m", "i", "z", "e", "d">>,
     <<"_", "s", "m", "a", "l", "l">>,
     <<"_", "m", "o", "b", "i", "l", "e">>,
     <<"_", "w", "e", "b">>,
     <<"_", "7", "2", "0", "p">>,
     <<"_", "4", "8", "0", "p">>}
    \cup (IF v = "cloudinary"
          THEN {<<"_", "c", "l", "o", "u", "d", "i", "n", "a", "r", "y">>}
          ELSE {})

Digit == <<"1", "2", "3", "4", "5", "6", "7", "8", "9">>

FileName(f) == <<"v", Digit[basename(f)], ".", "m", "p", "4">>

should_encode_video_strict(v, c, name) ==
    LET file_size == get_file_size(c) IN
    IF file_size <= min_size_mb * 1024 * 1024 THEN FALSE
    ELSE IF file_size >= max_size_mb * 1024 * 1024 THEN FALSE
    ELSE \A pattern \in skip_patterns(v) : ~Contains(Lowered(name), pattern)

should_encode_video(v, c, name) ==
    LET file_size == get_file_size(c) IN
    IF file_size < min_size_mb * 1024 * 1024 THEN FALSE
    ELSE IF file_size > max_size_mb * 1024 * 1024 THEN FALSE
    ELSE \A pattern \in skip_patterns(v) : ~Contains(Lowered(name), pattern)

----------------------------------------------------------------------------
(* The processed registry: a sequence of records (a JSON list in            *)
(* AsyncVideoEncoder, a JSON object keyed by path in the Cloudinary one).   *)
RegPaths(reg) == {reg[i].path : i \in 1..Len(reg)}

is_file_already_encoded_never(reg, f) == FALSE

is_file_already_encoded(reg, f) == \E i \in 1..Len(reg) : reg[i].path = f

Record_swapped(f, original_size, encoded_size) ==
    [path |-> f, original_size |-> encoded_size, encoded_size |-> original_size]

Record(f, original_size, encoded_size) ==
    [path |-> f, original_size |-> original_size, encoded_size |-> encoded_size]

add_encoded_file_forgotten(v, reg, f, original_size, encoded_size) == reg

add_encoded_file(v, reg, f, original_size, encoded_size) ==
    IF v = "cloudinary" /\ is_file_already_encoded(reg, f)
    THEN [i \in 1..Len(reg) |-> IF reg[i].path = f
                                THEN Record(f, original_size, encoded_size)
                                ELSE reg[i]]
    ELSE Append(reg, Record(f, original_size, encoded_size))

(* load_encoded_files: the persisted registry, or an empty registry when   *)
(* opening or parsing the file raised.                                     *)
load_encoded_files(disk, readable) == IF readable THEN disk ELSE <<>>

save_encoded_files(reg, disk, ok) == IF ok THEN reg ELSE disk

(* The audit log. *)
Row(f, before, after, status) ==
    [filename |-> basename(f), path |-> f, run |-> run,
     before |-> before, after |-> after, status |-> status]

log_to_csv(log, row) == Append(log, row)

----------------------------------------------------------------------------
(* Tasks. *)
NoOutcome == [kind |-> "none", size |-> 0]

NoTask == [orig_size |-> 0,         \* original_size of process_single_video_async
           in_gen |-> -1,           \* history: generation of the input when dispatched
           dispatches |-> 0,        \* history: backend calls made for the file in this run
           out |-> NoOutcome,       \* history: what the backend did
           result |-> "none",       \* value of the executor future
           enc |-> 0,               \* encoded_size of process_single_video_async
           rtrace |-> <<>>,         \* history: calls made by replace_original_file
           faults |-> {},           \* history: calls of the task made to raise
           saved |-> FALSE,         \* history: save_encoded_files wrote the registry
           ret |-> "none"]          \* value the task returned

Dispatched(f) == task[f].in_gen >= 0

InLog == {f \in Files : pc[f] = "logging"}

Running == {f \in Files : pc[f] \in {"running", "logging"}}

InFlight == {f \in Files : pc[f] \in {"queued", "running"}}

AllStarted == \A f \in FolderSet(cur) : pc[f] # "created"

NextToStart_any(f) == f \in FolderSet(cur) /\ pc[f] = "created"

(* The first task of the listing that has not run its first step yet. *)
NextToStart(f) ==
    \E j \in 1..Len(Folder(cur)) :
        /\ Folder(cur)[j] = f
        /\ pc[f] = "created"
        /\ \A i \in 1..(j - 1) : pc[Folder(cur)[i]] # "created"

FirstWaiter(f) ==
    \E j \in 1..Len(Folder(cur)) :
        /\ Folder(cur)[j] = f
        /\ pc[f] = "sem_wait"
        /\ \A i \in 1..(j - 1) : pc[Folder(cur)[i]] # "sem_wait"

(* scan_date_folder_async up to the gather of process_videos_async. *)
EnterFolder(k) ==
    /\ cur' = k
    /\ phase' = "gather"
    /\ pc' = [f \in Files |-> IF f \in FolderSet(k) THEN "created" ELSE pc[f]]
    /\ task' = task
    /\ work_queue' = <<>>
    /\ ready' = <<>>

(* Directory names: str.isdigit, int, str and the format {n:02d}. *)
DecimalDigits == <<"0", "1", "2", "3", "4", "5", "6", "7", "8", "9">>

isdigit(name) ==
    /\ name # <<>>
    /\ \A i \in 1..Len(name) : \E d \in 1..Len(DecimalDigits) : DecimalDigits[d] = name[i]

DigitValue(ch) == (CHOOSE d \in 1..Len(DecimalDigits) : DecimalDigits[d] = ch) - 1

RECURSIVE int(_)
int(name) ==
    IF name = <<>> THEN 0
    ELSE 10 * int(SubSeq(name, 1, Len(name) - 1)) + DigitValue(name[Len(name)])

RECURSIVE str(_)
str(n) ==
    IF n < 10 THEN <<DecimalDigits[n + 1]>>
    ELSE Append(str(n \div 10), DecimalDigits[(n % 10) + 1])

Pad2(n) == IF n < 10 THEN <<"0">> \o str(n) ELSE str(n)

(* The order of strings: by code point, a proper prefix first. *)
CodePoints == DecimalDigits \o Upper \o Lower

Ord(ch) == CHOOSE i \in 1..Len(CodePoints) : CodePoints[i] = ch

RECURSIVE StrLess(_, _)
StrLess(a, b) ==
    IF b = <<>> THEN FALSE
    ELSE IF a = <<>> THEN TRUE
    ELSE IF Head(a) = Head(b) THEN StrLess(Tail(a), Tail(b))
    ELSE Ord(Head(a)) < Ord(Head(b))

(* os.listdir of the month directory: the entries in directory order. *)
listdir == [i \in 1..Len(day_dirs) |-> i]

(* sorted(os.listdir(...)) *)
RECURSIVE sorted(_)
sorted(I) ==
    IF I = {} THEN <<>>
    ELSE LET m == CHOOSE i \in I :
                    \A j \in I \ {i} : StrLess(day_dirs[i].name, day_dirs[j].name)
         IN  <<m>> \o sorted(I \ {m})

(* The day loop of scan_all_folders_async: entries that are no directory   *)
(* or whose name is not numeric are passed over, the others give int(name).*)
RECURSIVE CollectDates(_)
CollectDates(order) ==
    IF order = <<>> THEN <<>>
    ELSE LET e == day_dirs[Head(order)] IN
         (IF ~e.isdir \/ ~isdigit(e.name) THEN <<>> ELSE <<int(e.name)>>)
         \o CollectDates(Tail(order))

scan_all_folders(v) ==
    CollectDates(IF v = "cloudinary" THEN listdir ELSE sorted(1..Len(day_dirs)))

(* scan_date_folder_async: the entry at the path built from the date, 0    *)
(* when os.path.exists is false.                                           *)
FolderAt(day) ==
    IF \E k \in 1..Len(day_dirs) : day_dirs[k].name = Pad2(day)
    THEN CHOOSE k \in 1..Len(day_dirs) : day_dirs[k].name = Pad2(day)
    ELSE 0

(* The date folders that exist, and a date that has no folder. *)
Dates == 1..(Len(tree) + 1)

folder_exists(k) == FolderAt(k) # 0

Warn_silent(n) == n

(* self.logger.warning *)
Warn(n) == n + 1

(* main with one date: scan_date_folder_async on a date whose folder does  *)
(* not exist warns and returns 0; main prints the total and returns.       *)
ScanMissingFolder ==
    /\ phase = "init"
    /\ \E k \in Dates :
         /\ ~folder_exists(k)
         /\ warnings' = Warn(warnings)
         /\ scanned' = Append(scanned, FolderAt(k))
         /\ total_processed' = 0
         /\ phase' = "finished"
    /\ UNCHANGED <<variant, tree, fs, backup, temp, json_disk, csv, encoded_files, run, loaded,
                   max_runs, cur, pc, task, work_queue, ready, sem, budget,
                   added_before, rp, day_dirs, date_folders, csv_file>>

(* The loop over the dates: scan_date_folder_async warns and returns 0 for *)
(* every date without a folder, and enters the first folder that exists;   *)
(* the sweep returns when no date is left.                                 *)
RECURSIVE Missing(_)
Missing(days) ==
    IF days = <<>> THEN 0
    ELSE IF folder_exists(Head(days)) THEN 0
    ELSE 1 + Missing(Tail(days))

RECURSIVE WarnTimes(_, _)
WarnTimes(n, k) == IF k = 0 THEN n ELSE WarnTimes(Warn(n), k - 1)

ScanNext(days) ==
    LET n == Missing(days)
        rest == SubSeq(days, n + 1, Len(days))
        passed == scanned \o [i \in 1..n |-> 0]
    IN  /\ warnings' = WarnTimes(warnings, n)
        /\ IF rest = <<>>
           THEN /\ phase' = "finished"
                /\ date_folders' = <<>>
                /\ scanned' = passed
                /\ UNCHANGED <<cur, pc, task, work_queue, ready>>
           ELSE /\ EnterFolder(FolderAt(Head(rest)))
                /\ date_folders' = Tail(rest)
                /\ scanned' = Append(passed, FolderAt(Head(rest)))

ScanAllFolders ==
    /\ phase = "init"
    /\ total_processed' = 0
    /\ ScanNext(scan_all_folders(variant))
    /\ UNCHANGED <<variant, tree, fs, backup, temp, json_disk, csv, encoded_files,
                   run, loaded, max_runs, sem, budget, added_before, rp, day_dirs, csv_file>>

(* A pool thread is free to take a call. *)
WorkerFree_unbounded == TRUE

WorkerFree_never == FALSE

WorkerFree == Cardinality(Running) < MAX_CONCURRENT_JOBS

(* run_in_executor: the call goes to a free pool thread, or waits on the   *)
(* executor's work queue.                                                  *)
Submit(f) ==
    IF WorkerFree
    THEN pc' = [pc EXCEPT ![f] = "running"] /\ work_queue' = work_queue
    ELSE pc' = [pc EXCEPT ![f] = "queued"] /\ work_queue' = Append(work_queue, f)

Skip(f) ==
    /\ pc' = [pc EXCEPT ![f] = "done"]
    /\ task' = [task EXCEPT ![f].ret = "False"]
    /\ UNCHANGED <<work_queue, sem>>

Capture(f) ==
    task' = [task EXCEPT ![f].orig_size = get_file_size(fs[f]), ![f].in_gen = fs[f].gen,
                         ![f].dispatches = @ + 1]

(* AsyncVideoEncoder.process_single_video_async up to its first await. *)
HeadLocal(f) ==
    IF is_file_already_encoded(encoded_files, f) THEN Skip(f)
    ELSE IF ~should_encode_video(variant, fs[f], FileName(f)) THEN Skip(f)
    ELSE /\ Capture(f)
         /\ IF variant = "ffmpeg"
            THEN Submit(f) /\ sem' = sem
            ELSE IF sem > 0
                 THEN Submit(f) /\ sem' = sem - 1
                 ELSE /\ pc' = [pc EXCEPT ![f] = "sem_wait"]
                      /\ UNCHANGED <<work_queue, sem>>

(* AsyncVideoEncoderCloudinary.process_single_video_async inside the       *)
(* semaphore, up to its first await.                                       *)
HeadCloudinary(f) ==
    IF ~should_encode_video(variant, fs[f], FileName(f)) THEN Skip(f)
    ELSE IF is_file_already_encoded(encoded_files, f) THEN Skip(f)
    ELSE /\ Capture(f)
         /\ Submit(f)
         /\ sem' = sem - 1

StartTask(f) ==
    /\ phase = "gather"
    /\ NextToStart(f)
    /\ IF variant = "cloudinary"
       THEN IF sem > 0
            THEN HeadCloudinary(f)
            ELSE /\ pc' = [pc EXCEPT ![f] = "sem_wait"]
                 /\ UNCHANGED <<task, work_queue, sem>>
       ELSE HeadLocal(f)
    /\ UNCHANGED <<variant, tree, fs, backup, temp, json_disk, csv, encoded_files,
                   run, loaded, max_runs, phase, cur, ready, budget, total_processed, added_before, warnings, rp,
                   day_dirs, date_folders, scanned, csv_file>>

(* A task waiting for the semaphore is woken once it was released. *)
SemWake(f) ==
    /\ phase = "gather"
    /\ AllStarted
    /\ FirstWaiter(f)
    /\ sem > 0
    /\ IF variant = "cloudinary"
       THEN HeadCloudinary(f)
       ELSE Submit(f) /\ sem' = sem - 1 /\ task' = task
    /\ UNCHANGED <<variant, tree, fs, backup, temp, json_disk, csv, encoded_files,
                   run, loaded, max_runs, phase, cur, ready, budget, total_processed, added_before, warnings, rp,
                   day_dirs, date_folders, scanned, csv_file>>

----------------------------------------------------------------------------
(* The backends.  An outcome is what the external transcoder did; Encode   *)
(* gives the audit rows written, the temp file left and the value returned *)
(* ("exc": the call raised).                                               *)
EncSizes(c) == {c.size - 1, c.size, c.size + 1}

Encoded(c, s) == [gen |-> c.gen + 1, size |-> s]

Outcomes(v, c) ==
    IF v = "ffmpeg"
    THEN {[kind |-> "timeout", size |-> 0], [kind |-> "timeout", size |-> 1],
          [kind |-> "fail", size |-> 0]}
         \cup [kind : {"ok"}, size : EncSizes(c)]
    ELSE IF v = "cloudconvert"
    THEN {[kind |-> "fail", size |-> 0], [kind |-> "fail_download", size |-> 0]}
         \cup [kind : {"ok"}, size : EncSizes(c) \cup {0}]
    ELSE {[kind |-> "upload_exc", size |-> 0], [kind |-> "upload_no_id", size |-> 0],
          [kind |-> "download_exc", size |-> 0], [kind |-> "empty", size |-> 0]}
         \cup [kind : {"ok"}, size : EncSizes(c)]

Enc(rows, tmp, result) == [rows |-> rows, temp |-> tmp, result |-> result]

Wipe(tmp) == [n \in DOMAIN tmp |-> NoFile]

RemoveTemp_all(tmp, n) == Wipe(tmp)

RemoveTemp(tmp, n) == [tmp EXCEPT ![n] = NoFile]

WriteTemp(tmp, n, c) == [tmp EXCEPT ![n] = c]

encode_video_ffmpeg(f, c, tmp, out) ==
    LET original_size == get_file_size(c)
        temp_output_path == basename(f)
    IN
    CASE out.kind = "timeout" ->
            Enc(<<Row(f, get_file_size(c), 0, "ffmpeg_timeout")>>,
                IF out.size > 0 THEN WriteTemp(tmp, temp_output_path, Encoded(c, out.size))
                ELSE tmp, "exc")
      [] out.kind = "fail" ->
            Enc(<<Row(f, get_file_size(c), 0, "ffmpeg_failed")>>,
                RemoveTemp(tmp, temp_output_path), "None")
      [] out.kind = "ok" ->
            Enc(<<Row(f, original_size, out.size, "ffmpeg_success")>>,
                WriteTemp(tmp, temp_output_path, Encoded(c, out.size)), "path")

encode_video_cloudconvert(f, c, tmp, out) ==
    LET original_size == get_file_size(c)
        temp_output_path == basename(f)
    IN
    CASE out.kind = "fail" ->
            Enc(<<Row(f, get_file_size(c), 0, "failed")>>, tmp, "None")
      [] out.kind = "fail_download" ->
            Enc(<<Row(f, get_file_size(c), 0, "failed")>>,
                RemoveTemp(tmp, temp_output_path), "None")
      [] out.kind = "ok" ->
            Enc(<<Row(f, original_size, out.size, "success")>>,
                WriteTemp(tmp, temp_output_path, Encoded(c, out.size)), "path")

encode_video_cloudinary(f, c, tmp, out) ==
    LET original_size == get_file_size(c)
        temp_output_path == basename(f)
    IN
    CASE out.kind = "upload_exc" ->
            Enc(<<Row(f, get_file_size(c), 0, "failed")>>, tmp, "None")
      [] out.kind = "upload_no_id" -> Enc(<<>>, tmp, "None")
      [] out.kind = "download_exc" ->
            Enc(<<Row(f, get_file_size(c), 0, "failed")>>,
                RemoveTemp(tmp, temp_output_path), "None")
      [] out.kind = "empty" ->
            Enc(<<>>, WriteTemp(tmp, temp_output_path, Encoded(c, 0)), "None")
      [] out.kind = "ok" ->
            Enc(<<Row(f, original_size, out.size, "success")>>,
                WriteTemp(tmp, temp_output_path, Encoded(c, out.size)), "path")

Encode(v, f, c, tmp, out) ==
    IF v = "ffmpeg" THEN encode_video_ffmpeg(f, c, tmp, out)
    ELSE IF v = "cloudconvert" THEN encode_video_cloudconvert(f, c, tmp, out)
    ELSE encode_video_cloudinary(f, c, tmp, out)

(* What an outcome costs of the budget: the nominal outcome is a strictly  *)
(* smaller, non-empty output.                                              *)
OutcomeCost(c, out) == IF out.kind = "ok" /\ out.size = c.size - 1 THEN 0 ELSE 1

(* The outcomes the backend function reports with a call of log_to_csv. *)
Logged(v, f, c, tmp) == {out \in Outcomes(v, c) : Encode(v, f, c, tmp, out).rows # <<>>}

(* The pool thread of f's attempt enters log_to_csv: it has opened the     *)
(* audit file for appending and has not written its row yet.               *)
EnterLog(f) ==
    /\ phase = "gather"
    /\ pc[f] = "running"
    /\ \E out \in Logged(variant, f, fs[f], temp) :
         /\ OutcomeCost(fs[f], out) <= budget
         /\ budget' = budget - OutcomeCost(fs[f], out)
         /\ task' = [task EXCEPT ![f].out = out]
    /\ pc' = [pc EXCEPT ![f] = "logging"]
    /\ UNCHANGED <<variant, tree, fs, backup, temp, json_disk, csv, encoded_files, run, loaded,
                   max_runs, phase, cur, work_queue, ready, sem, total_processed,
                   added_before, warnings, rp,
                   day_dirs, date_folders, scanned, csv_file>>

(* The outcome of a call that is inside log_to_csv is settled. *)
Pending(f) == IF pc[f] = "logging" THEN {task[f].out} ELSE Outcomes(variant, fs[f])

PendingCost(f, out) == IF pc[f] = "logging" THEN 0 ELSE OutcomeCost(fs[f], out)

(* The backend call of f's attempt returns on its pool thread; the thread  *)
(* takes the next call of the work queue, and the event loop is told.      *)
WorkerReturn(f) ==
    /\ phase = "gather"
    /\ pc[f] \in {"running", "logging"}
    /\ \E out \in Pending(f) :
         LET r == Encode(variant, f, fs[f], temp, out) IN
         /\ PendingCost(f, out) <= budget
         /\ budget' = budget - PendingCost(f, out)
         /\ csv' = csv \o r.rows
         /\ temp' = r.temp
         /\ task' = [task EXCEPT ![f].out = out, ![f].result = r.result]
    /\ ready' = Append(ready, f)
    /\ IF work_queue = <<>>
       THEN pc' = [pc EXCEPT ![f] = "returned"] /\ work_queue' = work_queue
       ELSE /\ pc' = [pc EXCEPT ![f] = "returned", ![Head(work_queue)] = "running"]
            /\ work_queue' = Tail(work_queue)
    /\ UNCHANGED <<variant, tree, fs, backup, json_disk, encoded_files, run, loaded, max_runs,
                   phase, cur, sem, total_processed, added_before, warnings, rp,
                   day_dirs, date_folders, scanned, csv_file>>

----------------------------------------------------------------------------
(* The rest of process_single_video_async, run by the event loop once the  *)
(* executor future of f is done.                                           *)
TaskOps == FsOps \cup {"remove_temp"}

Paths(f) == [o |-> fs[f], b |-> backup[f], e |-> temp[basename(f)]]

(* os.remove(encoded_file) after a replacement that returned False. *)
CleanUp(c, F) == IF Exists(c) /\ "remove_temp" \notin F THEN NoFile ELSE c

(* replace_original_file and the clean-up that follows a False. *)
ReplaceAndCleanUp(v, S, F) ==
    LET R == replace_original_file(v, S, F) IN
    IF R.ret THEN R ELSE [R EXCEPT !.e = CleanUp(R.e, F)]

(* The sets of raising calls worth telling apart: every call in F changes  *)
(* what happens.                                                           *)
FailureSets(v, S, n) ==
    {F \in SUBSET TaskOps :
        /\ Cardinality(F) <= n
        /\ \A op \in F : ReplaceAndCleanUp(v, S, F \ {op}) # ReplaceAndCleanUp(v, S, F)}

ReleaseSem == IF variant = "ffmpeg" THEN sem ELSE sem + 1

Finish(f, ret, trace, enc, F, saved) ==
    /\ pc' = [pc EXCEPT ![f] = "done"]
    /\ task' = [task EXCEPT ![f].ret = ret, ![f].rtrace = trace, ![f].enc = enc,
                            ![f].faults = F, ![f].saved = saved,
                            ![f].orig_size = IF variant = "cloudinary" /\ task[f].result = "path"
                                             THEN get_file_size(fs[f]) ELSE @]
    /\ ready' = Tail(ready)
    /\ sem' = ReleaseSem

Continue(f) ==
    /\ phase = "gather"
    /\ AllStarted
    /\ ready # <<>>
    /\ f = Head(ready)
    /\ IF task[f].result = "exc"
       THEN /\ Finish(f, "exc", <<>>, 0, {}, FALSE)
            /\ UNCHANGED <<fs, backup, temp, encoded_files, json_disk, budget>>
       ELSE IF task[f].result = "None"
       THEN /\ Finish(f, "False", <<>>, 0, {}, FALSE)
            /\ UNCHANGED <<fs, backup, temp, encoded_files, json_disk, budget>>
       ELSE \E F \in FailureSets(variant, Paths(f), budget) :
            LET encoded_size == get_file_size(temp[basename(f)])
                original_size == IF variant = "cloudinary" THEN get_file_size(fs[f])
                                 ELSE task[f].orig_size
                R == ReplaceAndCleanUp(variant, Paths(f), F)
            IN  /\ fs' = [fs EXCEPT ![f] = R.o]
                /\ backup' = [backup EXCEPT ![f] = R.b]
                /\ temp' = [temp EXCEPT ![basename(f)] = R.e]
                /\ IF R.ret
                   THEN \E ok \in BOOLEAN :
                        /\ ok \/ Cardinality(F) < budget
                        /\ budget' = budget - Cardinality(F) - (IF ok THEN 0 ELSE 1)
                        /\ encoded_files' = add_encoded_file(variant, encoded_files, f,
                                                             original_size, encoded_size)
                        /\ json_disk' = save_encoded_files(encoded_files', json_disk, ok)
                        /\ Finish(f, "True", R.trace, encoded_size, F, ok)
                   ELSE /\ budget' = budget - Cardinality(F)
                        /\ UNCHANGED <<encoded_files, json_disk>>
                        /\ Finish(f, "False", R.trace, encoded_size, F, FALSE)
    /\ UNCHANGED <<variant, tree, csv, run, loaded, max_runs, phase, cur, work_queue,
                   total_processed, added_before, warnings, rp,
                   day_dirs, date_folders, scanned, csv_file>>

(* gather has every result: process_videos_async counts, the sweep goes on *)
(* to the next date folder or returns.                                     *)
processed_count_all(k) == Cardinality({f \in FolderSet(k) : Dispatched(f)})

processed_count(k) == Cardinality({f \in FolderSet(k) : task[f].ret = "True"})

FolderDone_early ==
    /\ phase = "gather"
    /\ total_processed' = total_processed + processed_count(cur)
    /\ ScanNext(date_folders)
    /\ UNCHANGED <<variant, tree, fs, backup, temp, json_disk, csv, encoded_files,
                   run, loaded, max_runs, sem, budget, added_before, rp, day_dirs, csv_file>>

FolderDone ==
    /\ phase = "gather"
    /\ \A f \in FolderSet(cur) : pc[f] = "done"
    /\ total_processed' = total_processed + processed_count(cur)
    /\ ScanNext(date_folders)
    /\ UNCHANGED <<variant, tree, fs, backup, temp, json_disk, csv, encoded_files,
                   run, loaded, max_runs, sem, budget, added_before, rp, day_dirs, csv_file>>

(* main: the sweep returned to main, which prints the total and returns;   *)
(* no exception of a task reaches main's handler, gather keeps them.       *)
exit_status == IF phase = "finished" THEN 0 ELSE -1

(* init_csv_log: a log file that does not exist is created with the header *)
(* row; one that exists is left as it is.                                  *)
NoLog == [exists |-> FALSE, headers |-> 0]

init_csv_log_always(file, rows) ==
    [exists |-> TRUE, headers |-> file.headers + 1, rows |-> <<>>]

init_csv_log(file, rows) ==
    IF ~file.exists
    THEN [exists |-> TRUE, headers |-> file.headers + 1, rows |-> <<>>]
    ELSE [exists |-> TRUE, headers |-> file.headers, rows |-> rows]

(* A new process: __init__ loads the registry; whatever the previous       *)
(* process held in memory is gone.                                         *)
NewProcess(readable) ==
    /\ run' = run + 1
    /\ loaded' = readable
    /\ encoded_files' = load_encoded_files(json_disk, readable)
    /\ phase' = "init"
    /\ cur' = 0
    /\ pc' = [f \in Files |-> "idle"]
    /\ task' = [f \in Files |-> NoTask]
    /\ work_queue' = <<>>
    /\ ready' = <<>>
    /\ sem' = MAX_CONCURRENT_JOBS
    /\ total_processed' = 0
    /\ added_before' = added_before \cup RegPaths(encoded_files)
    /\ warnings' = 0
    /\ date_folders' = <<>>
    /\ scanned' = <<>>
    /\ LET log == init_csv_log(csv_file, csv) IN
         /\ csv' = log.rows
         /\ csv_file' = [exists |-> log.exists, headers |-> log.headers]

(* The script is run again after the previous run has ended. *)
Restart ==
    /\ run < max_runs
    /\ phase = "finished"
    /\ NewProcess(TRUE)
    /\ UNCHANGED <<variant, tree, fs, backup, temp, json_disk, max_runs, budget, rp,
                   day_dirs>>

(* The script is run again and the persisted registry cannot be opened or  *)
(* parsed: load_encoded_files catches the exception.                       *)
RestartUnreadable ==
    /\ run < max_runs
    /\ phase = "finished"
    /\ json_disk # <<>>
    /\ budget > 0
    /\ budget' = budget - 1
    /\ NewProcess(FALSE)
    /\ UNCHANGED <<variant, tree, fs, backup, temp, json_disk, max_runs, rp, day_dirs>>

(* The process is killed between two steps of the event loop; the script   *)
(* is run again.                                                           *)
Crash ==
    /\ run < max_runs
    /\ phase = "gather"
    /\ budget > 0
    /\ budget' = budget - 1
    /\ NewProcess(TRUE)
    /\ UNCHANGED <<variant, tree, fs, backup, temp, json_disk, max_runs, rp,
                   day_dirs>>

(* The process is killed when replace_original_file has returned and       *)
(* add_encoded_file has not run yet; the script is run again.              *)
CrashAfterReplace(f) ==
    /\ run < max_runs
    /\ phase = "gather"
    /\ AllStarted
    /\ ready # <<>>
    /\ f = Head(ready)
    /\ task[f].result = "path"
    /\ budget > 0
    /\ \E F \in FailureSets(variant, Paths(f), budget - 1) :
         LET R == replace_original_file(variant, Paths(f), F) IN
         /\ F \subseteq FsOps
         /\ fs' = [fs EXCEPT ![f] = R.o]
         /\ backup' = [backup EXCEPT ![f] = R.b]
         /\ temp' = [temp EXCEPT ![basename(f)] = R.e]
         /\ budget' = budget - 1 - Cardinality(F)
    /\ NewProcess(TRUE)
    /\ UNCHANGED <<variant, tree, json_disk, max_runs, rp, day_dirs>>

----------------------------------------------------------------------------
(* Initial states: the state after construction, on a tree of k files in   *)
(* the first date folder and one in the second.                            *)
Ascending(k) == [i \in 1..k |-> i]

Descending(k) == [i \in 1..k |-> k + 1 - i]

Listings(k) == {Ascending(k), Descending(k)}

InitSweep(k, runs, faults) ==
    /\ variant \in Variants
    /\ \E l \in Listings(k) : tree = <<l, <<k + 1, k + 2, k + 3>>>>
    /\ fs = [f \in 1..(k + 3) |-> [gen |-> 0, size |-> InitSizeOf(k + 3, f)]]
    /\ backup = [f \in 1..(k + 3) |-> NoFile]
    /\ temp = [n \in 1..(k + 3) |-> NoFile]
    /\ json_disk = <<>>
    /\ csv = init_csv_log(NoLog, <<>>).rows
    /\ csv_file = [exists |-> init_csv_log(NoLog, <<>>).exists,
                   headers |-> init_csv_log(NoLog, <<>>).headers]
    /\ day_dirs = <<[name |-> Pad2(1), isdir |-> TRUE], [name |-> Pad2(2), isdir |-> TRUE]>>
    /\ date_folders = <<>>
    /\ scanned = <<>>
    /\ encoded_files = load_encoded_files(json_disk, TRUE)
    /\ run = 1
    /\ loaded = TRUE
    /\ max_runs = runs
    /\ phase = "init"
    /\ cur = 0
    /\ pc = [f \in 1..(k + 3) |-> "idle"]
    /\ task = [f \in 1..(k + 3) |-> NoTask]
    /\ work_queue = <<>>
    /\ ready = <<>>
    /\ sem = MAX_CONCURRENT_JOBS
    /\ budget = faults
    /\ total_processed = 0
    /\ added_before = {}
    /\ warnings = 0
    /\ rp = [phase |-> "off"]

(* One run on a folder with more files than pool threads. *)
Init == InitSweep(FolderFiles, 1, MaxFaults)

Next ==
    \/ ScanAllFolders
    \/ ScanMissingFolder
    \/ \E f \in Files : StartTask(f)
    \/ \E f \in Files : SemWake(f)
    \/ \E f \in Files : WorkerReturn(f)
    \/ \E f \in Files : Continue(f)
    \/ FolderDone

Spec == Init /\ [][Next]_vars

(* One run of AsyncVideoEncoder with the local ffmpeg backend.  The event   *)
(* loop runs a callback that is ready, and every subprocess call returns   *)
(* or hits its timeout of 180 seconds, so every pool thread's call ends.   *)
InitLive == InitSweep(FolderFiles, 1, MaxFaults) /\ variant = "ffmpeg"

EventLoopStep ==
    \/ ScanAllFolders
    \/ ScanMissingFolder
    \/ \E f \in Files : StartTask(f)
    \/ \E f \in Files : Continue(f)
    \/ FolderDone

NextLive ==
    \/ EventLoopStep
    \/ \E f \in Files : WorkerReturn(f)

SpecLive ==
    /\ InitLive
    /\ [][NextLive]_vars
    /\ WF_vars(EventLoopStep)
    /\ \A f \in 1..(FolderFiles + 3) : WF_vars(WorkerReturn(f))

(* Several runs on a small tree; no task waits for the semaphore there.    *)
InitRuns == InitSweep(RunsFolderFiles, MaxRuns, RunsFaults)

NextRuns ==
    \/ ScanAllFolders
    \/ \E f \in Files : StartTask(f)
    \/ \E f \in Files : WorkerReturn(f)
    \/ \E f \in Files : Continue(f)
    \/ FolderDone
    \/ Restart
    \/ RestartUnreadable
    \/ Crash
    \/ \E f \in Files : CrashAfterReplace(f)

SpecRuns == InitRuns /\ [][NextRuns]_vars

(* One run on a small tree, the steps of log_to_csv told apart: the pool   *)
(* threads open the audit file and write their rows in separate steps.     *)
InitLog == InitSweep(LogFolderFiles, 1, LogFaults)

NextLog ==
    \/ ScanAllFolders
    \/ \E f \in Files : StartTask(f)
    \/ \E f \in Files : EnterLog(f)
    \/ \E f \in Files : WorkerReturn(f)
    \/ \E f \in Files : Continue(f)
    \/ FolderDone

SpecLog == InitLog /\ [][NextLog]_vars

(* The 'all' sweep over month directories whose entries are not all        *)
(* zero-padded day directories; every directory holds one eligible file.   *)
Dir(name) == [name |-> name, isdir |-> TRUE]

NotDir(name) == [name |-> name, isdir |-> FALSE]

WalkTrees ==
    {<<Dir(<<"0", "9">>), Dir(<<"1", "0">>)>>,
     <<Dir(<<"1", "0">>), Dir(<<"0", "9">>)>>,
     <<Dir(<<"0", "9">>), Dir(<<"9">>)>>,
     <<Dir(<<"9">>), Dir(<<"0", "9">>)>>,
     <<Dir(<<"9">>)>>,
     <<Dir(<<"1", "0">>), Dir(<<"0", "0", "9">>)>>,
     <<Dir(<<"1", "0">>), Dir(<<"x", "1">>), NotDir(<<"1", "1">>)>>}

InitWalk ==
    /\ variant \in Variants
    /\ day_dirs \in WalkTrees
    /\ tree = [k \in 1..Len(day_dirs) |-> IF day_dirs[k].isdir THEN <<k>> ELSE <<>>]
    /\ fs = [f \in FilesOf(tree) |-> [gen |-> 0, size |-> MinBytes + 1]]
    /\ backup = [f \in FilesOf(tree) |-> NoFile]
    /\ temp = [n \in FilesOf(tree) |-> NoFile]
    /\ json_disk = <<>>
    /\ csv = init_csv_log(NoLog, <<>>).rows
    /\ csv_file = [exists |-> init_csv_log(NoLog, <<>>).exists,
                   headers |-> init_csv_log(NoLog, <<>>).headers]
    /\ date_folders = <<>>
    /\ scanned = <<>>
    /\ encoded_files = load_encoded_files(json_disk, TRUE)
    /\ run = 1
    /\ loaded = TRUE
    /\ max_runs = 1
    /\ phase = "init"
    /\ cur = 0
    /\ pc = [f \in FilesOf(tree) |-> "idle"]
    /\ task = [f \in FilesOf(tree) |-> NoTask]
    /\ work_queue = <<>>
    /\ ready = <<>>
    /\ sem = MAX_CONCURRENT_JOBS
    /\ budget = WalkFaults
    /\ total_processed = 0
    /\ added_before = {}
    /\ warnings = 0
    /\ rp = [phase |-> "off"]

NextWalk ==
    \/ ScanAllFolders
    \/ \E f \in Files : StartTask(f)
    \/ \E f \in Files : WorkerReturn(f)
    \/ \E f \in Files : Continue(f)
    \/ FolderDone

SpecWalk == InitWalk /\ [][NextWalk]_vars

----------------------------------------------------------------------------
(* Harness: one call of replace_original_file on arbitrary small inputs.   *)
HarnessContents == {NoFile} \cup [gen : {0}, size : 0..MaxSize]
HarnessEncoded == {NoFile} \cup [gen : {1}, size : 0..MaxSize]
HarnessBackups == {NoFile, [gen |-> 0, size |-> MaxSize + 1]}

InitReplace ==
    /\ variant \in Variants
    /\ tree = <<>> /\ fs = <<>> /\ backup = <<>> /\ temp = <<>>
    /\ json_disk = <<>> /\ csv = <<>> /\ encoded_files = <<>>
    /\ run = 0 /\ loaded = TRUE /\ max_runs = 0 /\ phase = "off" /\ cur = 0
    /\ pc = <<>> /\ task = <<>> /\ work_queue = <<>> /\ ready = <<>> /\ sem = 0
    /\ budget = 0 /\ added_before = {} /\ warnings = 0
    /\ day_dirs = <<>> /\ date_folders = <<>> /\ scanned = <<>> /\ csv_file = NoLog
    /\ total_processed = 0
    /\ \E o \in HarnessContents, b \in HarnessBackups, e \in HarnessEncoded :
          rp = [phase |-> "call", pre |-> [o |-> o, b |-> b, e |-> e]]

ReplaceCall ==
    /\ rp.phase = "call"
    /\ \E F \in SUBSET FsOps :
          rp' = [phase |-> "returned", pre |-> rp.pre, F |-> F,
                 res |-> replace_original_file(variant, rp.pre, F)]
    /\ UNCHANGED <<variant, sweepVars>>

NextReplace == ReplaceCall

SpecReplace == InitReplace /\ [][NextReplace]_vars

----------------------------------------------------------------------------
(* Harness: one call of should_encode_video on a file of a size around the *)
(* thresholds and a name with or without a marker.                         *)
HarnessSizes == {0, MinBytes - 1, MinBytes, MinBytes + 1,
                 MaxBytes - 1, MaxBytes, MaxBytes + 1}

HarnessFiles == {NoFile} \cup [gen : {0}, size : HarnessSizes]

(* File names, each with the marker it was built around. *)
HarnessNames ==
    {[marker |-> "none", chars |-> <<"v", "1", ".", "m", "p", "4">>],
     [marker |-> "none", chars |-> <<"W", "e", "b", "7", "2", "0", "p", ".", "m", "p", "4">>],
     [marker |-> "none", chars |-> <<"a", "_", "w", "e", ".", "m", "p", "4">>],
     [marker |-> "_compressed",
      chars |-> <<"a", "_", "c", "o", "m", "p", "r", "e", "s", "s", "e", "d", ".", "m", "p", "4">>],
     [marker |-> "_encoded", chars |-> <<"_", "E", "n", "c", "o", "d", "e", "d", ".", "m", "p", "4">>],
     [marker |-> "_optimized",
      chars |-> <<"a", "_", "o", "p", "t", "i", "m", "i", "z", "e", "d", "2", ".", "m", "p", "4">>],
     [marker |-> "_small", chars |-> <<"a", "_", "S", "M", "A", "L", "L", ".", "M", "P", "4">>],
     [marker |-> "_mobile", chars |-> <<"a", "_", "m", "o", "b", "i", "l", "e", ".", "m", "p", "4">>],
     [marker |-> "_web", chars |-> <<"a", "_", "w", "e", "b", ".", "m", "p", "4">>],
     [marker |-> "_web", chars |-> <<"A", "_", "W", "E", "B", "_", "x", ".", "m", "p", "4">>],
     [marker |-> "_720p", chars |-> <<"c", "_", "7", "2", "0", "P", ".", "m", "p", "4">>],
     [marker |-> "_480p", chars |-> <<"c", "_", "4", "8", "0", "p", ".", "m", "p", "4">>],
     [marker |-> "_cloudinary",
      chars |-> <<"x", "_", "C", "l", "o", "u", "d", "i", "n", "a", "r", "y", ".", "m", "p", "4">>]}

InitEligible ==
    /\ variant \in Variants
    /\ tree = <<>> /\ fs = <<>> /\ backup = <<>> /\ temp = <<>>
    /\ json_disk = <<>> /\ csv = <<>> /\ encoded_files = <<>>
    /\ run = 0 /\ loaded = TRUE /\ max_runs = 0 /\ phase = "off" /\ cur = 0
    /\ pc = <<>> /\ task = <<>> /\ work_queue = <<>> /\ ready = <<>> /\ sem = 0
    /\ budget = 0 /\ added_before = {} /\ warnings = 0
    /\ day_dirs = <<>> /\ date_folders = <<>> /\ scanned = <<>> /\ csv_file = NoLog
    /\ total_processed = 0
    /\ \E c \in HarnessFiles, n \in HarnessNames :
          rp = [phase |-> "check", file |-> c, name |-> n]

EligibleCall ==
    /\ rp.phase = "check"
    /\ rp' = [phase |-> "checked", file |-> rp.file, name |-> rp.name,
              res |-> should_encode_video(variant, rp.file, rp.name.chars)]
    /\ UNCHANGED <<variant, sweepVars>>

NextEligible == EligibleCall

SpecEligible == InitEligible /\ [][NextEligible]_vars

----------------------------------------------------------------------------
(* Harness: one call of AsyncVideoEncoderCloudinary.encode_video, step by  *)
(* step.  rp.calls are the calls made to the remote service ("!" marks one *)
(* that raised), rp.value is what the try block or its handler decided to  *)
(* return, rp.ret what the caller gets.                                    *)
InitRemote ==
    /\ variant = "cloudinary"
    /\ tree = <<>> /\ fs = <<>> /\ backup = <<>> /\ temp = <<>>
    /\ json_disk = <<>> /\ csv = <<>> /\ encoded_files = <<>>
    /\ run = 0 /\ loaded = TRUE /\ max_runs = 0 /\ phase = "off" /\ cur = 0
    /\ pc = <<>> /\ task = <<>> /\ work_queue = <<>> /\ ready = <<>> /\ sem = 0
    /\ budget = 0 /\ added_before = {} /\ warnings = 0
    /\ day_dirs = <<>> /\ date_folders = <<>> /\ scanned = <<>> /\ csv_file = NoLog
    /\ total_processed = 0
    /\ \E c \in {h \in HarnessFiles : get_file_size(h) > 0} :
          rp = [phase |-> "start", file |-> c, public_id |-> FALSE, tmp |-> NoFile,
                calls |-> <<>>, rows |-> <<>>, value |-> "none", ret |-> "none",
                raised |-> FALSE]

(* generate_public_id and cloudinary.uploader.upload *)
RemoteUpload ==
    /\ rp.phase = "start"
    /\ \E up \in {"ok", "exc", "no_id"} :
         rp' = CASE up = "exc" ->
                      [rp EXCEPT !.phase = "finally", !.public_id = TRUE,
                                 !.calls = Append(@, "upload!"),
                                 !.rows = Append(@, "failed"), !.value = "None"]
                 [] up = "no_id" ->
                      [rp EXCEPT !.phase = "finally", !.public_id = TRUE,
                                 !.calls = Append(@, "upload"), !.value = "None"]
                 [] up = "ok" ->
                      [rp EXCEPT !.phase = "uploaded", !.public_id = TRUE,
                                 !.calls = Append(@, "upload")]
    /\ UNCHANGED <<variant, sweepVars>>

(* requests.get of the optimized URL, the copy into the temp file and the  *)
(* verification of the download.                                           *)
RemoteDownload ==
    /\ rp.phase = "uploaded"
    /\ \/ rp' = [rp EXCEPT !.phase = "finally", !.calls = Append(@, "download!"),
                           !.rows = Append(@, "failed"), !.tmp = NoFile,
                           !.value = "None"]
       \/ \E s \in EncSizes(rp.file) \cup {0} :
            rp' = IF s = 0
                  THEN [rp EXCEPT !.phase = "finally", !.calls = Append(@, "download"),
                                  !.tmp = Encoded(rp.file, 0), !.value = "None"]
                  ELSE [rp EXCEPT !.phase = "finally", !.calls = Append(@, "download"),
                                  !.tmp = Encoded(rp.file, s),
                                  !.rows = Append(@, "success"), !.value = "path"]
    /\ UNCHANGED <<variant, sweepVars>>

Destroy_none(calls, raises) == calls

(* cloudinary.uploader.destroy(public_id) *)
Destroy(calls, raises) == Append(calls, IF raises THEN "destroy!" ELSE "destroy")

(* The finally block: the asset is destroyed when public_id is set; an     *)
(* exception of destroy is logged as a warning.  Then the call returns.    *)
RemoteDestroy ==
    /\ rp.phase = "finally"
    /\ \E raises \in BOOLEAN :
         rp' = [rp EXCEPT !.phase = "returned",
                          !.calls = IF rp.public_id THEN Destroy(@, raises) ELSE @,
                          !.ret = rp.value,
                          !.raised = FALSE]
    /\ UNCHANGED <<variant, sweepVars>>

NextRemote ==
    \/ RemoteUpload
    \/ RemoteDownload
    \/ RemoteDestroy

SpecRemote == InitRemote /\ [][NextRemote]_vars

----------------------------------------------------------------------------
(* Vocabulary of the properties. *)
InTrace(tr, x) == \E i \in 1..Len(tr) : tr[i] = x

NoRaise(tr) == \A i \in 1..Len(tr) : tr[i] \in FsOps

RowsOf(f) == {i \in 1..Len(csv) : csv[i].path = f /\ csv[i].run = run}

RecordsOf(reg, f) == {i \in 1..Len(reg) : reg[i].path = f}

SuccessStatuses == {"success", "ffmpeg_success"}

FailureKinds == {"fail", "fail_download", "upload_exc", "upload_no_id",
                 "download_exc", "empty"}

TimeoutLogged == \E i \in 1..Len(csv) : csv[i].run = run /\ csv[i].status = "ffmpeg_timeout"

(* The timeout of some file has been logged and raised into its task. *)
TimeoutRaised == TimeoutLogged /\ \E x \in Files : pc[x] = "done" /\ task[x].ret = "exc"

(* The attempt of f is over: it was dispatched and its task has returned. *)
Finalized(f) == Dispatched(f) /\ pc[f] = "done"

Failed(x) == Finalized(x) /\ task[x].out.kind \in FailureKinds

SmallerOutput(f) == task[f].out.kind = "ok" /\ task[f].out.size < task[f].orig_size

LargerOutput(f) == task[f].out.kind = "ok" /\ task[f].out.size >= task[f].orig_size

Untouched(f) == fs[f] = [gen |-> task[f].in_gen, size |-> task[f].orig_size]

Replaced(f) == fs[f] = [gen |-> task[f].in_gen + 1, size |-> task[f].out.size]

Recorded(f) == Cardinality(RecordsOf(encoded_files, f)) = 1

EligibleAtStart(f) ==
    should_encode_video(variant, [gen |-> 0, size |-> InitSizeOf(LastFile, f)], FileName(f))

----------------------------------------------------------------------------
(* C1: size invariant.  Whenever replace_original_file is called with an   *)
(* encoded file that is not smaller than the original, in either variant   *)
(* and whichever file-system calls raise, it returns False, it never       *)
(* renames the original, and an original that was there keeps its content. *)
C1_SizeInvariant ==
    (rp.phase = "returned" /\ get_file_size(rp.pre.e) >= get_file_size(rp.pre.o))
    => /\ rp.res.ret = FALSE
       /\ ~InTrace(rp.res.trace, "rename_backup")
       /\ Exists(rp.pre.o) => rp.res.o = rp.pre.o

(* A call with an encoded file of exactly the original's size was refused. *)
C1_Witness ==
    /\ rp.phase = "returned"
    /\ Exists(rp.pre.o) /\ Exists(rp.pre.e)
    /\ rp.pre.o.size > 0
    /\ rp.pre.e.size = rp.pre.o.size
    /\ rp.res.ret = FALSE
    /\ rp.res.o = rp.pre.o

(* C2: idempotency across runs.  A path for which add_encoded_file was     *)
(* called in an earlier run is never dispatched to a backend by a later    *)
(* run.                                                                    *)
C2_Idempotency == \A f \in added_before : ~Dispatched(f)

(* C3: concurrency bound.  At no point are more than MAX_CONCURRENT_JOBS   *)
(* backend calls started and not yet returned, on any of the three paths.  *)
C3_ConcurrencyBound == Cardinality(Running) <= MAX_CONCURRENT_JOBS

(* The pool is full on the path without a semaphore while a further call   *)
(* waits on the executor's queue.                                          *)
C3_Witness ==
    /\ variant = "ffmpeg"
    /\ Cardinality(Running) = MAX_CONCURRENT_JOBS
    /\ work_queue # <<>>

(* C4: audit completeness.  An attempt that was dispatched to a backend    *)
(* and is finalized has exactly one row in the audit log, whatever its     *)
(* outcome.                                                                *)
C4_AuditCompleteness == \A f \in Files : Finalized(f) => Cardinality(RowsOf(f)) = 1

(* C5: rollback safety.  When the rename of the original to its backup     *)
(* path succeeded and the rename of the encoded file into the original     *)
(* path raised, the original content is at the original path or at the     *)
(* backup path once the call has returned.                                 *)
C5_RollbackSafety ==
    (/\ rp.phase = "returned"
     /\ InTrace(rp.res.trace, "rename_backup")
     /\ InTrace(rp.res.trace, "rename_encoded!"))
    => (rp.res.o = rp.pre.o \/ rp.res.b = rp.pre.o)

(* The second rename raised and so did the restoring rename: the original  *)
(* is left at the backup path.                                             *)
C5_Witness ==
    /\ rp.phase = "returned"
    /\ InTrace(rp.res.trace, "rename_backup")
    /\ InTrace(rp.res.trace, "rename_encoded!")
    /\ InTrace(rp.res.trace, "restore_backup!")
    /\ Exists(rp.pre.e)
    /\ ~Exists(rp.res.o)
    /\ rp.res.b = rp.pre.o

(* C6: run-fatal timeout.  Once the local-process backend has timed out on *)
(* a file, its timeout row is in the audit log and the exception has       *)
(* reached the file's task, the run is over: no backend call is started    *)
(* any more, for a file of the same folder or of a later one.              *)
C6_RunFatalTimeout ==
    [][TimeoutRaised => \A f \in Files : pc[f] # "running" => pc'[f] # "running"]_vars

(* C7: failure isolation.  When the attempt of a file x ended in a backend *)
(* failure, every other file that was eligible at the start of the sweep   *)
(* has had its own backend call by the end of the sweep, and every other   *)
(* attempt whose output is smaller and whose file-system calls were left   *)
(* alone has replaced its original and is recorded.                        *)
C7_FailureIsolation ==
    \A x \in Files : \A f \in Files \ {x} :
        Failed(x) =>
            /\ (phase = "finished" /\ EligibleAtStart(f))
               => (Finalized(f) /\ task[f].out.kind # "none")
            /\ (Finalized(f) /\ SmallerOutput(f) /\ task[f].faults = {})
               => (task[f].ret = "True" /\ Replaced(f) /\ Recorded(f))

(* The sweep is over; a file of the first folder failed at its backend     *)
(* while a file of the same folder and the file of the later folder were   *)
(* replaced and recorded.                                                  *)
C7_Witness ==
    /\ phase = "finished"
    /\ \E x \in FolderSet(1) : \E f \in FolderSet(1) \ {x} : \E g \in FolderSet(2) :
         /\ Failed(x)
         /\ Finalized(f) /\ Replaced(f) /\ Recorded(f)
         /\ Finalized(g) /\ Replaced(g) /\ Recorded(g)

(* C8: rejected-larger scenario.  After an attempt whose output is not     *)
(* smaller than the original the registry has no record of the path, the   *)
(* audit log has exactly one row for it whose status is not a success      *)
(* status, the original is unchanged and the temp output file is gone.     *)
C8_RejectedLarger ==
    \A f \in Files :
        (Finalized(f) /\ LargerOutput(f))
        => /\ RecordsOf(encoded_files, f) = {}
           /\ Cardinality(RowsOf(f)) = 1
           /\ \A i \in RowsOf(f) : csv[i].status \notin SuccessStatuses
           /\ Untouched(f)
           /\ ~Exists(temp[basename(f)])

(* C9: success scenario.  After an attempt whose output is strictly        *)
(* smaller and whose replacement made every call without a raise, the      *)
(* registry has exactly one record of the path (and so has the persisted   *)
(* registry when the save wrote it), the audit log has exactly one row for *)
(* it, a success row, and the original path holds the encoded content.     *)
C9_SuccessScenario ==
    \A f \in Files :
        (Finalized(f) /\ SmallerOutput(f) /\ NoRaise(task[f].rtrace))
        => /\ task[f].ret = "True"
           /\ Recorded(f)
           /\ task[f].saved => Cardinality(RecordsOf(json_disk, f)) = 1
           /\ Cardinality(RowsOf(f)) = 1
           /\ \A i \in RowsOf(f) : csv[i].status \in SuccessStatuses
           /\ Replaced(f)

(* An attempt with a smaller output has replaced its original, is recorded *)
(* and persisted.                                                          *)
C9_Witness ==
    \E f \in Files :
        /\ Finalized(f) /\ SmallerOutput(f) /\ NoRaise(task[f].rtrace)
        /\ InTrace(task[f].rtrace, "rename_encoded")
        /\ task[f].out.size > 0
        /\ Replaced(f) /\ Recorded(f) /\ task[f].saved

(* C10: at most once across restarts.  No run dispatches a file whose      *)
(* original has already been replaced by its encoded version.              *)
C10_AtMostOnce == \A f \in Files : Dispatched(f) => task[f].in_gen = 0

----------------------------------------------------------------------------
(* add_encoded_file has returned for f in this run. *)
AddReturned(f) == Finalized(f) /\ task[f].ret = "True"

(* gather of the current folder has every result, or the sweep is over. *)
AllFinished == phase = "finished" \/ (phase = "gather" /\ \A f \in FolderSet(cur) : pc[f] = "done")

(* C11: registry durability.  Whenever add_encoded_file has returned for a *)
(* path, the persisted registry holds a record of the path, also when the  *)
(* write to storage raised.                                                *)
C11_Durability ==
    \A f \in Files : AddReturned(f) => RecordsOf(json_disk, f) # {}

(* C12: no lost registry updates.  Once all attempts of a folder have      *)
(* finished, the registry in memory and the persisted registry hold a      *)
(* record of every path add_encoded_file was called for.                   *)
C12_NoLostUpdates ==
    AllFinished =>
        \A f \in Files : AddReturned(f) =>
            /\ RecordsOf(encoded_files, f) # {}
            /\ RecordsOf(json_disk, f) # {}

(* C14: at most one record per path.  In every state of every run, the     *)
(* registry in memory and the persisted registry hold at most one record   *)
(* of any path.                                                            *)
C14_OneRecordPerPath ==
    \A f \in Files :
        /\ Cardinality(RecordsOf(encoded_files, f)) <= 1
        /\ Cardinality(RecordsOf(json_disk, f)) <= 1

(* A later run meets a file that is still eligible and that an earlier run *)
(* recorded: its task skips it, and the registry holds its one record.     *)
C14_Witness ==
    \E f \in Files :
        /\ run > 1
        /\ pc[f] = "done" /\ ~Dispatched(f)
        /\ should_encode_video(variant, fs[f], FileName(f))
        /\ Cardinality(RecordsOf(encoded_files, f)) = 1
        /\ Cardinality(RecordsOf(json_disk, f)) = 1

(* C15: returned count.  When the sweep has returned, its total equals the *)
(* number of files whose original was replaced by its encoded version.     *)
C15_ReturnedCount ==
    phase = "finished" =>
        total_processed = Cardinality({f \in Files : Dispatched(f) /\ Replaced(f)})

(* C16: distinct exit signal.  A run in which the local-process backend    *)
(* timed out on a file ends with exit status 2.                            *)
C16_TimeoutExit == (phase = "finished" /\ TimeoutLogged) => exit_status = 2

(* C17: candidate ordering.  The files of a date folder are visited in     *)
(* ascending order of their names: when the task of a file has started,    *)
(* the task of every file of the folder with a smaller name has started.   *)
C17_CandidateOrdering ==
    phase = "gather" =>
        \A f \in FolderSet(cur) : \A g \in FolderSet(cur) :
            (basename(f) < basename(g) /\ pc[g] # "created") => pc[f] # "created"

(* C20: replacement protocol.  Whenever replace_original_file returns True *)
(* it has renamed the original to the backup path, renamed the encoded     *)
(* file into the original path and deleted the backup, in this order; the  *)
(* original path holds the encoded content, and neither the temp file nor  *)
(* the backup file is left.                                                *)
C20_ReplacementProtocol ==
    (rp.phase = "returned" /\ rp.res.ret)
    => /\ rp.res.trace = <<"rename_backup", "rename_encoded", "remove_backup">>
       /\ rp.res.o = rp.pre.e
       /\ ~Exists(rp.res.e)
       /\ ~Exists(rp.res.b)

(* C13: audit-log writes are serialized.  At no point are two pool        *)
(* threads inside log_to_csv at the same time.                             *)
C13_SerializedLog == Cardinality(InLog) <= 1

(* C18: missing date folder.  A scan of a date whose folder does not exist *)
(* returns 0 with exactly one warning and leaves the audit log, the        *)
(* registry, every file and every task as they were: nothing is            *)
(* dispatched.                                                             *)
C18_MissingFolder ==
    [][(phase = "init" /\ phase' = "finished")
       => /\ total_processed' = 0
          /\ warnings' = warnings + 1
          /\ UNCHANGED <<csv, csv_file, encoded_files, json_disk, fs, backup, temp, pc,
                         task, work_queue>>]_vars

(* The run scanned a date without a folder and is over: one warning, no    *)
(* audit row, no task.                                                     *)
C18_Witness ==
    /\ phase = "finished"
    /\ cur = 0
    /\ warnings = 1
    /\ total_processed = 0
    /\ csv = <<>>
    /\ \A f \in Files : pc[f] = "idle" /\ ~Dispatched(f)

(* The markers configured in a variant. *)
Configured(v, marker) ==
    /\ marker # "none"
    /\ marker = "_cloudinary" => v = "cloudinary"

(* C19: eligibility.  should_encode_video returns True exactly when the    *)
(* file is neither smaller than 10 MiB nor larger than 500 MiB and its     *)
(* lower-cased name holds no configured marker; a file of exactly 10 MiB   *)
(* or exactly 500 MiB is eligible; the call changes no file, no registry   *)
(* and no audit state.                                                     *)
C19_Eligibility ==
    [][(rp.phase = "check" /\ rp'.phase = "checked")
       => /\ rp'.res = (/\ Exists(rp.file)
                        /\ rp.file.size >= 10 * 1024 * 1024
                        /\ rp.file.size <= 500 * 1024 * 1024
                        /\ ~Configured(variant, rp.name.marker))
          /\ UNCHANGED <<fs, backup, temp, json_disk, csv, csv_file, encoded_files>>]_vars

(* A file of exactly the minimum size with an unmarked name was found      *)
(* eligible.                                                               *)
C19_Witness ==
    /\ rp.phase = "checked"
    /\ Exists(rp.file)
    /\ rp.file.size = MinBytes
    /\ rp.name.marker = "none"
    /\ rp.res = TRUE

----------------------------------------------------------------------------
(* C21: restore on rename failure.  When the original was renamed to its   *)
(* backup path and the rename of the encoded file raised, the function     *)
(* renames the backup back; when that rename does not raise, the call ends *)
(* with the original content at the original path and no backup file, in   *)
(* both variants.                                                          *)
C21_RestoreOnFailure ==
    (/\ rp.phase = "returned"
     /\ InTrace(rp.res.trace, "rename_backup")
     /\ InTrace(rp.res.trace, "rename_encoded!")
     /\ "restore_backup" \notin rp.F)
    => /\ rp.res.ret = FALSE
       /\ InTrace(rp.res.trace, "restore_backup")
       /\ rp.res.o = rp.pre.o
       /\ ~Exists(rp.res.b)

(* C22: a False result means no mutation.  Whenever replace_original_file  *)
(* returns False, for whatever reason, an original that was there is still *)
(* at the original path with its content.                                  *)
C22_FalseMeansUntouched ==
    (rp.phase = "returned" /\ rp.res.ret = FALSE /\ Exists(rp.pre.o))
    => rp.res.o = rp.pre.o

(* No other file with the temp path of f was dispatched in this run. *)
OwnTemp(f) == \A g \in Files \ {f} : basename(g) = basename(f) => ~Dispatched(g)

(* C23: temp-file lifecycle.  Once an attempt is finalized its temp output *)
(* file has been moved into the original path or deleted: whatever the     *)
(* outcome, the temp path of a finalized attempt holds no file.            *)
C23_TempLifecycle ==
    \A f \in Files : (Finalized(f) /\ OwnTemp(f)) => ~Exists(temp[basename(f)])

(* The attempt of f is in flight: dispatched and not finalized. *)
InAttempt(f) == Dispatched(f) /\ pc[f] # "done"

(* C24: temp-file exclusivity.  No two attempts that are in flight at the  *)
(* same time have the same temp output path, and a step that writes,       *)
(* renames or removes a temp file is a step of the one attempt in flight   *)
(* whose temp path it is.                                                  *)
C24_TempExclusivity ==
    /\ [](\A f \in Files : \A g \in Files \ {f} :
            (InAttempt(f) /\ InAttempt(g)) => basename(f) # basename(g))
    /\ [][\A n \in DOMAIN temp :
            temp'[n] # temp[n]
            => \E f \in Files :
                 /\ InAttempt(f) /\ basename(f) = n /\ pc'[f] # pc[f]
                 /\ \A g \in Files \ {f} : pc'[g] # pc[g] => basename(g) # n]_vars

(* Two attempts are in flight, each with its output in its own temp file.  *)
C24_Witness ==
    \E f \in Files : \E g \in Files \ {f} :
        /\ pc[f] = "returned" /\ pc[g] = "returned"
        /\ task[f].result = "path" /\ task[g].result = "path"
        /\ Exists(temp[basename(f)]) /\ Exists(temp[basename(g)])
        /\ temp[basename(f)].gen = 1 /\ temp[basename(g)].gen = 1

(* C25: at most one dispatch per path per run.  Within one run no path is  *)
(* dispatched to a backend more than once.                                 *)
C25_OneDispatchPerRun == \A f \in Files : task[f].dispatches <= 1

(* How often scan_date_folder_async was called on the k-th entry. *)
TimesScanned(k) == Cardinality({i \in 1..Len(scanned) : scanned[i] = k})

(* C27: partition walk.  When an 'all' sweep has returned, every day       *)
(* directory with a purely numeric name was scanned exactly once, as that  *)
(* very directory, and no other entry was scanned.                         *)
C27_PartitionWalk ==
    phase = "finished" =>
        \A k \in 1..Len(day_dirs) :
            TimesScanned(k) = IF day_dirs[k].isdir /\ isdigit(day_dirs[k].name) THEN 1 ELSE 0

(* The backend call of f has started; the task of f has still to start it. *)
Started(f) == Dispatched(f) /\ pc[f] \in {"running", "logging", "returned", "done"}

Waiting(f) == pc[f] \in {"created", "sem_wait", "queued"}

(* C26: dispatch and completion order.  Backend calls are started in the   *)
(* order of the list handed to process_videos_async: when the call of a    *)
(* file has started, no file listed before it still waits for its own.     *)
(* Completions are free: a file can be replaced and recorded while a file  *)
(* dispatched before it is still at the backend.                           *)
C26_DispatchOrder ==
    phase = "gather" =>
        \A j \in 1..Len(Folder(cur)) : \A i \in 1..(j - 1) :
            Started(Folder(cur)[j]) => ~Waiting(Folder(cur)[i])

(* A file is replaced and recorded while the call of a file listed and     *)
(* dispatched before it has not returned.                                  *)
C26_Witness ==
    /\ phase = "gather"
    /\ \E j \in 1..Len(Folder(cur)) : \E i \in 1..(j - 1) :
         /\ pc[Folder(cur)[i]] = "running"
         /\ Finalized(Folder(cur)[j])
         /\ Replaced(Folder(cur)[j])
         /\ Recorded(Folder(cur)[j])

(* The backend produced an output file without content. *)
EmptyOutput(f) == task[f].out.kind \in {"ok", "empty"} /\ task[f].out.size = 0

(* C28: backend-failure frame.  When an attempt ended in a backend failure *)
(* (the backend reported a failure, or its output is missing or empty),    *)
(* the file at the original path is unchanged, neither registry has a      *)
(* record of the path, and the attempt does not count as processed.        *)
C28_BackendFailureFrame ==
    \A f \in Files :
        (Finalized(f) /\ (task[f].out.kind \in FailureKinds \/ EmptyOutput(f)))
        => /\ Untouched(f)
           /\ RecordsOf(encoded_files, f) = {}
           /\ RecordsOf(json_disk, f) = {}
           /\ task[f].ret = "False"

(* The positions in a trace of remote calls of the calls to destroy. *)
DestroyCalls(calls) == {i \in 1..Len(calls) : calls[i] \in {"destroy", "destroy!"}}

(* C29: remote cleanup.  Every call of the Cloudinary encode_video that    *)
(* generated a public id has, when it returns, made exactly one call to    *)
(* destroy, as its last remote call, whatever the outcome of the upload    *)
(* and of the download; the call returns what was decided before the       *)
(* cleanup and raises nothing, also when destroy raised.                   *)
C29_RemoteCleanup ==
    (rp.phase = "returned" /\ rp.public_id)
    => /\ DestroyCalls(rp.calls) = {Len(rp.calls)}
       /\ rp.ret = rp.value
       /\ ~rp.raised
       /\ rp.value = "path" <=> (Exists(rp.tmp) /\ rp.tmp.size > 0)

(* The download failed, destroy raised, and the call returned None. *)
C29_Witness ==
    /\ rp.phase = "returned"
    /\ rp.calls = <<"upload", "download!", "destroy!">>
    /\ rp.ret = "None"

(* C30: the audit log is append-only.  The log file holds exactly one      *)
(* header row, written when the file did not exist at startup; no step,    *)
(* the start of a later run included, changes or removes a row that is in  *)
(* the log, and a write adds one row at the end.                           *)
C30_AppendOnly ==
    /\ [](csv_file.exists /\ csv_file.headers = 1)
    /\ [][/\ IsPrefix(csv, csv')
          /\ Len(csv') <= Len(csv) + 1
          /\ csv_file' = csv_file]_vars

(* A second run has started on a log that existed and has added its own    *)
(* row after the row of the first run.                                     *)
C30_Witness ==
    /\ run = 2
    /\ Len(csv) >= 2
    /\ csv[1].run = 1
    /\ csv[Len(csv)].run = 2
    /\ csv_file.headers = 1

----------------------------------------------------------------------------
(* C31: unrecorded paths are retried.  When a later run has swept the      *)
(* tree, every path that has an audit row of an earlier run, no registry   *)
(* record of an earlier run and a file that is still eligible was          *)
(* dispatched again by this run, and this run has appended an audit row    *)
(* for it.                                                                 *)
C31_RetriedByLaterRuns ==
    (phase = "finished" /\ run > 1) =>
        \A f \in Files :
            (/\ \E i \in 1..Len(csv) : csv[i].path = f /\ csv[i].run < run
             /\ f \notin added_before
             /\ Dispatched(f) \/ should_encode_video(variant, fs[f], FileName(f)))
            => (Dispatched(f) /\ RowsOf(f) # {})

(* C32: record implies replacement.  In every state, a registry record of  *)
(* a path that was added in this run was added after replace_original_file *)
(* returned True for the path, and every record, in memory or persisted,   *)
(* has an encoded size strictly smaller than its original size.            *)
C32_RecordImpliesReplacement ==
    /\ \A i \in 1..Len(encoded_files) :
           encoded_files[i].encoded_size < encoded_files[i].original_size
    /\ \A i \in 1..Len(json_disk) : json_disk[i].encoded_size < json_disk[i].original_size
    /\ \A f \in Files :
           (RecordsOf(encoded_files, f) # {} /\ f \notin added_before)
           => (task[f].ret = "True" /\ InTrace(task[f].rtrace, "rename_encoded"))
    /\ \A f \in Files :
           (Dispatched(f) /\ task[f].ret # "True" /\ f \notin added_before)
           => RecordsOf(encoded_files, f) = {}

(* A record was added in this run for a file whose replacement returned    *)
(* True, with the sizes of the attempt: a smaller, non-empty output.        *)
C32_Witness ==
    \E f \in Files : \E i \in RecordsOf(encoded_files, f) :
        /\ AddReturned(f) /\ Replaced(f)
        /\ encoded_files[i].original_size = task[f].orig_size
        /\ encoded_files[i].encoded_size = task[f].out.size
        /\ encoded_files[i].encoded_size > 0

(* C33: count matches registry growth.  For a sweep of AsyncVideoEncoder,  *)
(* which starts here with an empty registry, the total returned by the     *)
(* sweep equals the number of records in the in-memory registry, and a     *)
(* file holds exactly one record if add_encoded_file was called for it and *)
(* none otherwise.                                                         *)
C33_CountMatchesRegistry ==
    variant # "cloudinary" =>
        /\ phase = "finished" => total_processed = Len(encoded_files)
        /\ \A f \in Files :
               Cardinality(RecordsOf(encoded_files, f)) = IF AddReturned(f) THEN 1 ELSE 0

(* A finished sweep of AsyncVideoEncoder that counted files of both        *)
(* folders and left a dispatched file, whose attempt failed, uncounted.    *)
C33_Witness ==
    /\ variant # "cloudinary"
    /\ phase = "finished"
    /\ total_processed >= 3
    /\ Len(encoded_files) = total_processed
    /\ \E f \in FolderSet(1), g \in FolderSet(2) : AddReturned(f) /\ AddReturned(g)
    /\ \E f \in Files : Dispatched(f) /\ Failed(f)

(* C34: folder barrier.  In every state, every attempt that is created,    *)
(* checked, dispatched or running and not yet finalized belongs to the     *)
(* folder being gathered, and every other folder is either untouched (no   *)
(* file of it created, checked or dispatched) or has all its files done;   *)
(* the sweep moves to another folder only when every file of the current   *)
(* folder is done.                                                         *)
C34_FolderBarrier ==
    /\ []( /\ \A f \in Files :
                  pc[f] \notin {"idle", "done"} => (phase = "gather" /\ f \in FolderSet(cur))
           /\ \A k \in 1..Len(tree) :
                  (k # cur \/ phase # "gather") =>
                      \/ \A f \in FolderSet(k) : pc[f] = "idle" /\ task[f] = NoTask
                      \/ \A f \in FolderSet(k) : pc[f] = "done" )
    /\ [][(cur # 0 /\ cur' # cur) => \A f \in FolderSet(cur) : pc[f] = "done"]_vars

(* A file of the second folder gathered is running on a worker after the   *)
(* files of the folder before it were all finalized, one of them replaced. *)
C34_Witness ==
    /\ phase = "gather"
    /\ Len(scanned) = 2
    /\ \E f \in FolderSet(cur) : pc[f] = "running"
    /\ \E k \in 1..Len(tree) :
         /\ k # cur
         /\ \A g \in FolderSet(k) : pc[g] = "done"
         /\ \E g \in FolderSet(k) : AddReturned(g)

(* The files of the folders the sweep has entered. *)
Discovered(f) == \E i \in 1..Len(scanned) : scanned[i] # 0 /\ f \in FolderSet(scanned[i])

C36_LoadFailureNonFatal ==
    ~loaded =>
        /\ RegPaths(encoded_files) = {f \in Files : AddReturned(f)}
        /\ \A f \in Files :
               (pc[f] = "done" /\ ~Dispatched(f))
               => ~should_encode_video(variant, fs[f], FileName(f))
        /\ (\E f \in Files : AddReturned(f)) => json_disk = encoded_files

====
